---- MODULE Spec2Model ----
(***************************************************************************)
(* Model of p2000/rtlsdr.py: the Connection that owns the rtl_fm |         *)
(* multimon-ng pipeline, and the AbstractReader that attaches to a         *)
(* Connection, runs the read loop over its stdout, hands every line to     *)
(* act and detaches in a finally block.                                    *)
(*                                                                         *)
(* Every caller is a thread with a call stack of frames.  A frame is one   *)
(* activation of attach (with __setup_connection__), detach, open, or of   *)
(* the user's act; its pc is the source line it is about to execute.       *)
(* The child processes are part of the state: every successful Popen adds  *)
(* an rtl_fm or a multimon-ng process, identified by a process id.         *)
(*                                                                         *)
(* Line and the pure methods of the Reader (decode_line, create_line,      *)
(* is_line_blacklisted) are operators on tagged sequences of byte values   *)
(* and code points; a caller applies them to composed input lines.         *)
(***************************************************************************)
EXTENDS Integers, Sequences, FiniteSets, TLC

\* ------------------------------------------------------------------ bounds
\* Calls made over a run by a single caller and by the act it runs, and
\* lines the streams yield over that run; calls made by each of two
\* concurrent callers, and lines the streams yield over their run.
\* Every spawn and every nested frame belongs to a call, so these bound the
\* process ids and the stack depth as well.
MaxCalls == 2
MaxLines == 2
MaxCalls2 == 1
MaxLines2 == 1
\* Words of a line handed to Line, create_line or is_line_blacklisted, and
\* characters before the newline of a text line handed to decode_line.
MaxTokens == 8
MaxText == 3

\* ------------------------------------------------------------------ values
Threads == {"t1", "t2"}
Readers == {"r1", "r2"}
Connections == {"c1", "c2"}
None == "None"
NoProc == 0
NoErr == "none"

Pipes == 1..(MaxCalls + MaxCalls2)

\* bytes and str values are tagged, so that a byte line and a text line are
\* different values even when they hold the same numbers.
Bytes(v) == [t |-> "bytes", v |-> v]
Str(v) == [t |-> "str", v |-> v]
NoLine == [t |-> "none", v |-> <<>>]

\* The byte lines a stream can yield: b"a \n" and b"\xc3\xa9\n".
RawLines == {Bytes(<<97, 32, 10>>), Bytes(<<195, 169, 10>>)}

\* ------------------------------------------------------- decode_line (pure)
\* bytes.decode("utf-8") for one- and two-byte sequences; any other byte is
\* a UnicodeDecodeError (ok = FALSE).
RECURSIVE Utf8Decode(_)
Utf8Decode(bs) ==
    IF bs = <<>> THEN [ok |-> TRUE, v |-> <<>>]
    ELSE IF bs[1] < 128
         THEN LET rest == Utf8Decode(Tail(bs))
              IN  [ok |-> rest.ok, v |-> <<bs[1]>> \o rest.v]
    ELSE IF bs[1] >= 194 /\ bs[1] <= 223 /\ Len(bs) >= 2
            /\ bs[2] >= 128 /\ bs[2] <= 191
         THEN LET rest == Utf8Decode(Tail(Tail(bs)))
              IN  [ok |-> rest.ok,
                   v |-> <<(bs[1] - 192) * 64 + (bs[2] - 128)>> \o rest.v]
    ELSE [ok |-> FALSE, v |-> <<>>]

\* The code points str.rstrip() removes (str.isspace below U+0800).
IsSpace(cp) == cp \in {9, 10, 11, 12, 13, 28, 29, 30, 31, 32, 133, 160}

\* rstrip taking off the newline only
rstrip_newline(s) ==
    IF s # <<>> /\ s[Len(s)] = 10 THEN SubSeq(s, 1, Len(s) - 1) ELSE s

RECURSIVE rstrip(_)
rstrip(s) ==
    IF s = <<>> THEN <<>>
    ELSE IF IsSpace(s[Len(s)]) THEN rstrip(SubSeq(s, 1, Len(s) - 1))
    ELSE s

\* AbstractReader.decode_line(line, strip): a str, or NoLine when decode raises.
decode_line(line, strip) ==
    LET decoded == Utf8Decode(line.v)
    IN  IF ~decoded.ok THEN NoLine
        ELSE IF strip THEN Str(rstrip(decoded.v)) ELSE Str(decoded.v)

\* str.encode("utf-8") for code points below U+0800: what the pipeline wrote
\* for a text line.
RECURSIVE Utf8Encode(_)
Utf8Encode(s) ==
    IF s = <<>> THEN <<>>
    ELSE IF s[1] < 128 THEN <<s[1]>> \o Utf8Encode(Tail(s))
    ELSE <<192 + (s[1] \div 64), 128 + (s[1] % 64)>> \o Utf8Encode(Tail(s))

\* -------------------------------------------------------------- Line (pure)
\* What split() splits at: str.isspace for a str, the six ASCII whitespace
\* bytes for a bytes object.
Space(x, t) == IF t = "bytes" THEN x \in {9, 10, 11, 12, 13, 32} ELSE IsSpace(x)

\* line.split(): the maximal runs of non-whitespace, in order.
RECURSIVE splitrec(_, _, _, _)
splitrec(s, t, cur, acc) ==
    IF s = <<>> THEN (IF cur = <<>> THEN acc ELSE Append(acc, cur))
    ELSE IF Space(s[1], t)
         THEN splitrec(Tail(s), t, <<>>,
                       IF cur = <<>> THEN acc ELSE Append(acc, cur))
    ELSE splitrec(Tail(s), t, Append(cur, s[1]), acc)

split(line) == splitrec(line.v, line.t, <<>>, <<>>)

\* words[a:b] with a >= 0; a negative b counts from the end.
Slice(words, a, b) ==
    LET n == Len(words)
        lo == IF a > n THEN n ELSE a
        hi == IF b < 0 THEN (IF n + b < 0 THEN 0 ELSE n + b)
              ELSE IF b > n THEN n ELSE b
    IN  SubSeq(words, lo + 1, hi)

\* " ".join(words)
RECURSIVE join(_)
join(words) ==
    IF words = <<>> THEN <<>>
    ELSE IF Len(words) = 1 THEN words[1]
    ELSE words[1] \o <<32>> \o join(Tail(words))

\* word.strip("[]"): every leading and every trailing '[' or ']' goes.
RECURSIVE lstrip_chars(_, _)
lstrip_chars(w, chars) ==
    IF w # <<>> /\ w[1] \in chars THEN lstrip_chars(Tail(w), chars) ELSE w

RECURSIVE rstrip_chars(_, _)
rstrip_chars(w, chars) ==
    IF w # <<>> /\ w[Len(w)] \in chars
    THEN rstrip_chars(SubSeq(w, 1, Len(w) - 1), chars)
    ELSE w

strip(w, chars) == rstrip_chars(lstrip_chars(w, chars), chars)

\* The keyword arguments of a call; "absent" and NoLine stand for a keyword
\* that was not given.
Kw(timestamp, monitorcode, message, decode, strip_) ==
    [timestamp |-> timestamp, monitorcode |-> monitorcode,
     message |-> message, decode |-> decode, strip |-> strip_]
NoKw == Kw(NoLine, NoLine, NoLine, "absent", "absent")

\* kwargs.get(key, default), of a value and of a flag
Get(given, default) == IF given = NoLine THEN default ELSE given
Flag(given, default) == IF given = "absent" THEN default ELSE given = "True"

\* A Line object, and what stands for it when the constructor raised exc.
LineRec(line, timestamp, monitorcode, message) ==
    [t |-> "Line", exc |-> NoErr, line |-> line, timestamp |-> timestamp,
     monitorcode |-> monitorcode, message |-> message]
NoRec ==
    [t |-> "none", exc |-> NoErr, line |-> NoLine, timestamp |-> NoLine,
     monitorcode |-> NoLine, message |-> NoLine]
Raise(exc) == [NoRec EXCEPT !.exc = exc]

\* Line whose defaults are computed only for the keywords not given
Line_lazy(line, kw) ==
    LET words == split(line)
    IN  IF kw.monitorcode = NoLine /\ Len(words) < 6 THEN Raise("IndexError")
        ELSE LineRec(line,
                 Get(kw.timestamp, Str(join(Slice(words, 1, 2)))),
                 Get(kw.monitorcode, Str(strip(words[6], {91, 93}))),
                 Get(kw.message, Str(join(Slice(words, 6, -1)))))

\* Line whose message runs to the last word
Line_to_end(line, kw) ==
    LET words == split(line)
    IN  IF Len(words) < 6 THEN Raise("IndexError")
        ELSE LineRec(line,
                 Get(kw.timestamp, Str(join(Slice(words, 1, 2)))),
                 Get(kw.monitorcode, Str(strip(words[6], {91, 93}))),
                 Get(kw.message, Str(join(Slice(words, 6, Len(words))))))

\* Line.__init__(line, **kwargs), lines 19-23.  The three defaults are
\* arguments of kwargs.get and so are computed whether or not the keyword
\* was given: joining the words of a bytes line with a str raises TypeError
\* (line 21), words[5] raises IndexError below six words (line 22).
Line(line, kw) ==
    LET words == split(line)
    IN  IF line.t = "bytes" /\ Len(words) >= 2 THEN Raise("TypeError")
        ELSE IF Len(words) < 6 THEN Raise("IndexError")
        ELSE LineRec(line,
                 Get(kw.timestamp, Str(join(Slice(words, 1, 2)))),
                 Get(kw.monitorcode, Str(strip(words[6], {91, 93}))),
                 Get(kw.message, Str(join(Slice(words, 6, -1)))))

\* create_line handing the line over as it came
create_line_raw(line, kw) == Line(line, NoKw)

\* AbstractReader.create_line(line, **kwargs), lines 166-168; a str has no
\* decode method.
create_line(line, kw) ==
    IF Flag(kw.decode, TRUE)
    THEN IF line.t # "bytes" THEN Raise("AttributeError")
         ELSE LET decoded == decode_line(line, Flag(kw.strip, TRUE))
              IN  IF decoded = NoLine THEN Raise("UnicodeDecodeError")
                  ELSE Line(decoded, NoKw)
    ELSE Line(line, NoKw)

\* ------------------------------------------------------ blacklists (pure)
\* The result of a call: the value returned, or the exception raised.
Ret(val) == [exc |-> NoErr, val |-> val]
Fail(exc) == [exc |-> exc, val |-> FALSE]

\* lines 188-191: isinstance(line, Line), else create_line(line) first
is_monitorcode_blacklisted(line, cfg) ==
    IF line.t = "Line" THEN Ret(line.monitorcode \in cfg.monitorcodes)
    ELSE LET made == create_line(line, NoKw)
         IN  IF made.exc # NoErr THEN Fail(made.exc)
             ELSE Ret(made.monitorcode \in cfg.monitorcodes)

\* lines 201-204
is_message_blacklisted(line, cfg) ==
    IF line.t = "Line" THEN Ret(line.message \in cfg.messages)
    ELSE LET made == create_line(line, NoKw)
         IN  IF made.exc # NoErr THEN Fail(made.exc)
             ELSE Ret(made.message \in cfg.messages)

\* is_line_blacklisted asking for both
is_line_blacklisted_both(line, cfg) ==
    LET code == is_monitorcode_blacklisted(line, cfg)
        mess == is_message_blacklisted(line, cfg)
    IN  IF code.exc # NoErr THEN code
        ELSE IF mess.exc # NoErr THEN mess
        ELSE Ret(code.val /\ mess.val)

\* line 178: is_monitorcode_blacklisted(line) or is_message_blacklisted(line)
is_line_blacklisted(line, cfg) ==
    LET code == is_monitorcode_blacklisted(line, cfg)
    IN  IF code.exc # NoErr \/ code.val THEN code
        ELSE is_message_blacklisted(line, cfg)

\* AbstractReader.__init__, lines 86-88: the two blacklists of the config.
Cfg(messages, monitorcodes) ==
    [messages |-> messages, monitorcodes |-> monitorcodes]
NoCfg == Cfg({}, {})

\* ------------------------------------------------ inputs of the pure calls
\* Lines are composed of the words "[a]" and "]b[\xe9", either with single
\* spaces, or with a leading space, tab-and-space between the words and a
\* space and a newline at the end.
Words == {<<91, 97, 93>>, <<93, 98, 91, 233>>}
WordSeqs == UNION {[1..n -> Words] : n \in 0..MaxTokens}
Layouts ==
    {[lead |-> <<>>, sep |-> <<32>>, trail |-> <<>>],
     [lead |-> <<32>>, sep |-> <<9, 32>>, trail |-> <<32, 10>>]}

RECURSIVE Between(_, _)
Between(toks, sep) ==
    IF toks = <<>> THEN <<>>
    ELSE IF Len(toks) = 1 THEN toks[1]
    ELSE toks[1] \o sep \o Between(Tail(toks), sep)

Compose(toks, lay) == lay.lead \o Between(toks, lay.sep) \o lay.trail

\* Each keyword of Line is absent or given as "x".
Overrides ==
    {Kw(a, b, c, "absent", "absent") : a, b, c \in {NoLine, Str(<<120>>)}}
Flags == {"absent", "True", "False"}

\* b"2024-01-01 12:00:00 X Y Z [A12] Hello World NNNN\n"
ExampleRaw ==
    Bytes(
        <<50, 48, 50, 52, 45, 48, 49, 45, 48, 49, 32, 49, 50,
        58, 48, 48, 58, 48, 48, 32, 88, 32, 89, 32, 90, 32, 91,
        65, 49, 50, 93, 32, 72, 101, 108, 108, 111, 32, 87, 111,
        114, 108, 100, 32, 78, 78, 78, 78, 10>>)

\* What create_line is called with: the example line as bytes and as str,
\* and bytes that are not UTF-8.
CreateInputs ==
    {ExampleRaw, Str(SubSeq(ExampleRaw.v, 1, Len(ExampleRaw.v) - 1)),
     Bytes(<<255, 10>>)}

\* Text lines for decode_line: up to MaxText characters of "a", " ",
\* "\xe9" and "\n", before the newline that ends the line.
Texts == UNION {[1..n -> {97, 32, 233, 10}] : n \in 0..MaxText}

\* Blacklists a config may hold: the message "[a]" or none, the
\* monitorcode "a" or none.
Configs ==
    {Cfg(ms, cs) : ms \in SUBSET {Str(<<91, 97, 93>>)},
                   cs \in SUBSET {Str(<<97>>)}}

\* ------------------------------------------------------------------- state
VARIABLES
    connection,     \* AbstractReader.connection, per Reader
    rtlfm_process,  \* Connection.rtlfm_process: rtl_fm process id or NoProc
    multi_process,  \* Connection.multi_process: multimon-ng id or NoProc
    stdout,         \* Connection.stdout: the multimon-ng whose stdout it is
    rtl,            \* per rtl_fm process id: unborn, running or dead
    multi,          \* per multimon-ng process id: unborn, running or dead
    feed,           \* per multimon-ng process: the rtl_fm process on its stdin
    lines,          \* lines the multimon-ng processes may still write
    stack,          \* per thread: its call stack, innermost frame last
    calls,          \* per thread: calls its caller and act may still make
    kills,          \* invocations of Connection.kill so far
    torn            \* per Connection: kill was invoked on it since its last
                    \* completed open

vars == <<connection, rtlfm_process, multi_process, stdout, rtl, multi,
          feed, lines, stack, calls, kills, torn>>

connVars == <<rtlfm_process, multi_process, stdout>>
procVars == <<rtl, multi, feed, lines>>

\* ------------------------------------------------------------------ frames
Frame(op, r, c, pc) ==
    [op |-> op, r |-> r, c |-> c, pc |-> pc,
     exc |-> NoErr,        \* the exception this activation ends with
     passed |-> FALSE,     \* attach: the guard let the call through
     held |-> None,        \* attach: self.connection when the guard ran
     stream |-> NoProc,    \* attach: the stream the for loop iterates
     got |-> <<>>,         \* attach: the lines the for loop has read
     acted |-> <<>>,       \* attach: the arguments act was called with
     raised |-> NoErr,     \* attach: the exception that ended the try body
     arg |-> NoLine,       \* act: its argument
     flag |-> FALSE,       \* open: the kill keyword
     mine |-> NoProc,      \* open: the rtl_fm process it started
     found |-> FALSE,      \* detach: a connection was present
     k0 |-> 0,             \* attach, detach: kill invocations before it
     kw |-> NoKw,          \* Line, create_line, decode_line: the keywords
     toks |-> <<>>,        \* the words the caller composed the line of
     cfg |-> NoCfg,        \* is_line_blacklisted: the Reader's blacklists
     rec |-> NoRec,        \* the Line object passed in or made
     out |-> NoLine,       \* decode_line: the str returned
     val |-> FALSE]        \* is_line_blacklisted: the value returned

Depth(t) == Len(stack[t])
Top(t) == stack[t][Depth(t)]
Idle(t) == stack[t] = <<>>

SetTop(t, f) == [stack EXCEPT ![t] = [@ EXCEPT ![Len(@)] = f]]
Push(t, f) == [stack EXCEPT ![t] = Append(@, f)]
\* the top frame becomes f, and g is called from it
SetTopPush(t, f, g) ==
    [stack EXCEPT ![t] = Append([@ EXCEPT ![Len(@)] = f], g)]

At(t, op, pc) == ~Idle(t) /\ Top(t).op = op /\ Top(t).pc = pc

\* -------------------------------------------------------- Connection.kill
\* The next free process id of a process table.
NextPid(procs) == Cardinality({k \in Pipes : procs[k] # "unborn"}) + 1

\* call(["killall", "-9", "rtl_fm"]): every running rtl_fm process dies,
\* whichever Connection started it.  call returns killall's exit status,
\* which the code ignores; it does not raise.
\* Killall reaching only the rtl_fm process started last
Killall_newest(procs) ==
    [k \in Pipes |->
        IF procs[k] = "running" /\ k = NextPid(procs) - 1 THEN "dead"
        ELSE procs[k]]

Killall(procs) ==
    [k \in Pipes |-> IF procs[k] = "running" THEN "dead" ELSE procs[k]]

\* kill whose killall finds no process to end
kill_astray(c) ==
    /\ rtl' = rtl
    /\ kills' = kills + 1
    /\ torn' = [torn EXCEPT ![c] = TRUE]

\* Connection.kill() on connection c.
kill(c) ==
    /\ rtl' = Killall(rtl)
    /\ kills' = kills + 1
    /\ torn' = [torn EXCEPT ![c] = TRUE]

\* -------------------------------------------------------------------- Init
InitState ==
    /\ connection = [r \in Readers |-> None]
    /\ rtlfm_process = [c \in Connections |-> NoProc]
    /\ multi_process = [c \in Connections |-> NoProc]
    /\ stdout = [c \in Connections |-> NoProc]
    /\ rtl = [k \in Pipes |-> "unborn"]
    /\ multi = [k \in Pipes |-> "unborn"]
    /\ feed = [k \in Pipes |-> NoProc]
    /\ stack = [t \in Threads |-> <<>>]
    /\ kills = 0
    /\ torn = [c \in Connections |-> FALSE]

\* One caller: every Reader and Connection is used from a single thread.
Init ==
    /\ InitState
    /\ calls = [t \in Threads |-> IF t = "t1" THEN MaxCalls ELSE 0]
    /\ lines = MaxLines

\* Two callers on two threads.
InitPar ==
    /\ InitState
    /\ calls = [t \in Threads |-> MaxCalls2]
    /\ lines = MaxLines2

\* ------------------------------------------------- calls made by a caller
CanCall(t) == calls[t] > 0

\* The Reader and the Connection a caller made for itself.
OwnReader(t) == IF t = "t1" THEN "r1" ELSE "r2"
OwnConnection(t) == IF t = "t1" THEN "c1" ELSE "c2"

\* The first caller uses one Reader; a second caller uses that one or its own.
ReadersOf(t) == IF t = "t1" THEN {"r1"} ELSE Readers

\* reader.attach(connection)
call_attach(t) ==
    /\ Idle(t) /\ CanCall(t)
    /\ \E r \in ReadersOf(t), c \in Connections :
           stack' = Push(t, Frame("attach", r, c, "l110"))
    /\ calls' = [calls EXCEPT ![t] = @ - 1]
    /\ UNCHANGED <<connection, connVars, procVars, kills, torn>>

\* reader.detach()
call_detach(t) ==
    /\ Idle(t) /\ CanCall(t)
    /\ \E r \in ReadersOf(t) :
           stack' = Push(t, Frame("detach", r, None, "l124"))
    /\ calls' = [calls EXCEPT ![t] = @ - 1]
    /\ UNCHANGED <<connection, connVars, procVars, kills, torn>>

\* connection.open() or connection.open(kill=flag)
call_open(t) ==
    /\ Idle(t) /\ CanCall(t)
    /\ \E c \in Connections, flag \in BOOLEAN :
           stack' = Push(t, [Frame("open", None, c, "l60") EXCEPT !.flag = flag])
    /\ calls' = [calls EXCEPT ![t] = @ - 1]
    /\ UNCHANGED <<connection, connVars, procVars, kills, torn>>

\* connection.kill()
call_kill(t) ==
    /\ Idle(t) /\ CanCall(t)
    /\ \E c \in Connections : kill(c)
    /\ calls' = [calls EXCEPT ![t] = @ - 1]
    /\ UNCHANGED <<connection, connVars, multi, feed, lines, stack>>

\* ------------------------------------------------------ AbstractReader.attach
\* line 110: if self.connection is None
attach_110(t) ==
    /\ At(t, "attach", "l110")
    /\ LET f == Top(t)
       IN  stack' = SetTop(t,
             IF connection[f.r] = None
             THEN [f EXCEPT !.pc = "l139", !.passed = TRUE, !.k0 = kills]
             ELSE [f EXCEPT !.pc = "l112", !.held = connection[f.r],
                            !.k0 = kills])
    /\ UNCHANGED <<connection, connVars, procVars, calls, kills, torn>>

\* attach_112 without the else branch: a set connection never rejects
attach_112_open(t) ==
    /\ At(t, "attach", "l112")
    /\ LET f == Top(t)
       IN  stack' = SetTop(t,
             IF connection[f.r] = None
             THEN [f EXCEPT !.pc = "done", !.exc = "AttributeError"]
             ELSE [f EXCEPT !.pc = "l139", !.passed = TRUE])
    /\ UNCHANGED <<connection, connVars, procVars, calls, kills, torn>>

\* lines 112-115: elif self.connection.stdout is None ... else raise
attach_112(t) ==
    /\ At(t, "attach", "l112")
    /\ LET f == Top(t)
           cur == connection[f.r]
       IN  stack' = SetTop(t,
             IF cur = None
             THEN [f EXCEPT !.pc = "done", !.exc = "AttributeError"]
             ELSE IF stdout[cur] = NoProc
             THEN [f EXCEPT !.pc = "l139", !.passed = TRUE]
             ELSE [f EXCEPT !.pc = "done", !.exc = "ConnectionError"])
    /\ UNCHANGED <<connection, connVars, procVars, calls, kills, torn>>

\* ------------------------------------- AbstractReader.__setup_connection__
\* line 139: self.connection = connection
setup_139(t) ==
    /\ At(t, "attach", "l139")
    /\ LET f == Top(t)
       IN  /\ connection' = [connection EXCEPT ![f.r] = f.c]
           /\ stack' = SetTop(t, [f EXCEPT !.pc = "l140"])
    /\ UNCHANGED <<connVars, procVars, calls, kills, torn>>

\* line 140: connection.open(), without the kill keyword
setup_140(t) ==
    /\ At(t, "attach", "l140")
    /\ LET f == Top(t)
       IN  stack' = SetTopPush(t, [f EXCEPT !.pc = "opening"],
                               Frame("open", None, f.c, "l60"))
    /\ UNCHANGED <<connection, connVars, procVars, calls, kills, torn>>

\* line 141, entering the loop: iter(self.connection.stdout)
setup_141(t) ==
    /\ At(t, "attach", "l141")
    /\ LET f == Top(t)
           cur == connection[f.r]
       IN  stack' = SetTop(t,
             IF cur = None
             THEN [f EXCEPT !.pc = "l144", !.exc = "AttributeError",
                            !.raised = "AttributeError"]
             ELSE IF stdout[cur] = NoProc
             THEN [f EXCEPT !.pc = "l144", !.exc = "TypeError",
                            !.raised = "TypeError"]
             ELSE [f EXCEPT !.pc = "next", !.stream = stdout[cur]])
    /\ UNCHANGED <<connection, connVars, procVars, calls, kills, torn>>

\* ActArg decoding the line before act sees it
ActArg_decoded(line) == decode_line(line, TRUE)

\* line 142: the value self.act is called with for the byte line read
ActArg(line) == line

\* lines 141-142, one iteration: the stream yields a line and act is called
\* with it, or the stream is at end-of-file, or reading it raises.
setup_next(t) ==
    /\ At(t, "attach", "next")
    /\ LET f == Top(t)
           s == f.stream
       IN  \/ /\ multi[s] = "running"
              /\ lines > 0
              /\ \E line \in RawLines :
                    /\ lines' = lines - 1
                    /\ stack' = SetTopPush(t,
                          [f EXCEPT !.pc = "acting",
                                    !.got = Append(@, line),
                                    !.acted = Append(@, ActArg(line))],
                          [Frame("act", f.r, f.c, "body")
                             EXCEPT !.arg = ActArg(line)])
           \/ /\ multi[s] = "dead"
              /\ stack' = SetTop(t, [f EXCEPT !.pc = "l144"])
              /\ UNCHANGED lines
           \/ /\ stack' = SetTop(t, [f EXCEPT !.pc = "l144", !.exc = "IOError",
                                               !.raised = "IOError"])
              /\ UNCHANGED lines
    /\ UNCHANGED <<connection, connVars, rtl, multi, feed, calls, kills, torn>>

\* setup_144 without the finally block: the loop's exit returns at once
setup_144_bare(t) ==
    /\ At(t, "attach", "l144")
    /\ stack' = SetTop(t, [Top(t) EXCEPT !.pc = "done"])
    /\ UNCHANGED <<connection, connVars, procVars, calls, kills, torn>>

\* line 144: finally: self.detach()
setup_144(t) ==
    /\ At(t, "attach", "l144")
    /\ LET f == Top(t)
       IN  stack' = SetTopPush(t, [f EXCEPT !.pc = "detaching"],
                               Frame("detach", f.r, None, "l124"))
    /\ UNCHANGED <<connection, connVars, procVars, calls, kills, torn>>

\* ------------------------------------------------------ AbstractReader.detach
\* detach_124 without the test: it goes on to kill whatever is there
detach_124_always(t) ==
    /\ At(t, "detach", "l124")
    /\ LET f == Top(t)
       IN  stack' = SetTop(t,
             [f EXCEPT !.pc = "l125", !.found = connection[f.r] # None,
                       !.k0 = kills, !.c = connection[f.r]])
    /\ UNCHANGED <<connection, connVars, procVars, calls, kills, torn>>

\* line 124: if self.connection is not None
detach_124(t) ==
    /\ At(t, "detach", "l124")
    /\ LET f == Top(t)
       IN  stack' = SetTop(t,
             IF connection[f.r] # None
             THEN [f EXCEPT !.pc = "l125", !.found = TRUE, !.k0 = kills,
                            !.c = connection[f.r]]
             ELSE [f EXCEPT !.pc = "done", !.k0 = kills])
    /\ UNCHANGED <<connection, connVars, procVars, calls, kills, torn>>

\* detach_125 without the kill: the reference is dropped, nothing is killed
detach_125_nokill(t) ==
    /\ At(t, "detach", "l125")
    /\ stack' = SetTop(t, [Top(t) EXCEPT !.pc = "l126"])
    /\ UNCHANGED <<connection, connVars, procVars, calls, kills, torn>>

\* line 125: self.connection.kill()
detach_125(t) ==
    /\ At(t, "detach", "l125")
    /\ LET f == Top(t)
           cur == connection[f.r]
       IN  IF cur = None
           THEN /\ stack' = SetTop(t, [f EXCEPT !.pc = "done",
                                                !.exc = "AttributeError"])
                /\ UNCHANGED <<rtl, kills, torn>>
           ELSE /\ kill(cur)
                /\ stack' = SetTop(t, [f EXCEPT !.pc = "l126"])
    /\ UNCHANGED <<connection, connVars, multi, feed, lines, calls>>

\* line 126: self.connection = None
detach_126(t) ==
    /\ At(t, "detach", "l126")
    /\ LET f == Top(t)
       IN  /\ connection' = [connection EXCEPT ![f.r] = None]
           /\ stack' = SetTop(t, [f EXCEPT !.pc = "done"])
    /\ UNCHANGED <<connVars, procVars, calls, kills, torn>>

\* ------------------------------------------------------------ Connection.open
\* open_60 with kill defaulting to True, as the docstring of open has it
open_60_always(t) ==
    /\ At(t, "open", "l60")
    /\ kill(Top(t).c)
    /\ stack' = SetTop(t, [Top(t) EXCEPT !.pc = "l62"])
    /\ UNCHANGED <<connection, connVars, multi, feed, lines, calls>>

\* lines 60-61: if kwargs.get("kill", False): self.kill()
open_60(t) ==
    /\ At(t, "open", "l60")
    /\ LET f == Top(t)
       IN  /\ IF f.flag THEN kill(f.c) ELSE UNCHANGED <<rtl, kills, torn>>
           /\ stack' = SetTop(t, [f EXCEPT !.pc = "l62"])
    /\ UNCHANGED <<connection, connVars, multi, feed, lines, calls>>

\* line 62: self.rtlfm_process = Popen(COMMAND_RTLFM, stdout=PIPE); Popen
\* raises OSError when the process cannot be started.
open_62(t) ==
    /\ At(t, "open", "l62")
    /\ LET f == Top(t)
           pid == NextPid(rtl)
       IN  \/ /\ pid \in Pipes
              /\ rtl' = [rtl EXCEPT ![pid] = "running"]
              /\ rtlfm_process' = [rtlfm_process EXCEPT ![f.c] = pid]
              /\ stack' = SetTop(t, [f EXCEPT !.pc = "l63", !.mine = pid])
           \/ /\ stack' = SetTop(t, [f EXCEPT !.pc = "done", !.exc = "OSError"])
              /\ UNCHANGED <<rtl, rtlfm_process>>
    /\ UNCHANGED <<connection, multi_process, stdout, multi, feed, lines,
                   calls, kills, torn>>

\* line 63: self.multi_process = Popen(COMMAND_MULTI,
\*              stdin=self.rtlfm_process.stdout, stdout=PIPE)
open_63(t) ==
    /\ At(t, "open", "l63")
    /\ LET f == Top(t)
           pid == NextPid(multi)
       IN  \/ /\ pid \in Pipes
              /\ multi' = [multi EXCEPT ![pid] = "running"]
              /\ feed' = [feed EXCEPT ![pid] = rtlfm_process[f.c]]
              /\ multi_process' = [multi_process EXCEPT ![f.c] = pid]
              /\ stack' = SetTop(t, [f EXCEPT !.pc = "l64"])
           \/ /\ stack' = SetTop(t, [f EXCEPT !.pc = "done", !.exc = "OSError"])
              /\ UNCHANGED <<multi, feed, multi_process>>
    /\ UNCHANGED <<connection, rtlfm_process, stdout, rtl, lines, calls, kills, torn>>

\* line 64: self.stdout = self.multi_process.stdout
open_64(t) ==
    /\ At(t, "open", "l64")
    /\ LET f == Top(t)
       IN  /\ stdout' = [stdout EXCEPT ![f.c] = multi_process[f.c]]
           /\ torn' = [torn EXCEPT ![f.c] = FALSE]
           /\ stack' = SetTop(t, [f EXCEPT !.pc = "done"])
    /\ UNCHANGED <<connection, rtlfm_process, multi_process, procVars, calls,
                   kills>>

\* ------------------------------------------------------ AbstractReader.act
\* act is the user's: it returns, raises, or calls detach or attach on its
\* own Reader first; an exception of a call it made is its to swallow or
\* to let through.
act_return(t) ==
    /\ At(t, "act", "body")
    /\ stack' = SetTop(t, [Top(t) EXCEPT !.pc = "done", !.exc = NoErr])
    /\ UNCHANGED <<connection, connVars, procVars, calls, kills, torn>>

act_raise(t) ==
    /\ At(t, "act", "body")
    /\ \E e \in {"ActError", Top(t).exc} \ {NoErr} :
          stack' = SetTop(t, [Top(t) EXCEPT !.pc = "done", !.exc = e])
    /\ UNCHANGED <<connection, connVars, procVars, calls, kills, torn>>

act_detach(t) ==
    /\ At(t, "act", "body") /\ CanCall(t)
    /\ LET f == Top(t)
       IN  stack' = SetTopPush(t, [f EXCEPT !.pc = "calling", !.exc = NoErr],
                               Frame("detach", f.r, None, "l124"))
    /\ calls' = [calls EXCEPT ![t] = @ - 1]
    /\ UNCHANGED <<connection, connVars, procVars, kills, torn>>

act_attach(t) ==
    /\ At(t, "act", "body") /\ CanCall(t)
    /\ LET f == Top(t)
       IN  \E c \in Connections :
              stack' = SetTopPush(t, [f EXCEPT !.pc = "calling", !.exc = NoErr],
                                  Frame("attach", f.r, c, "l110"))
    /\ calls' = [calls EXCEPT ![t] = @ - 1]
    /\ UNCHANGED <<connection, connVars, procVars, kills, torn>>

\* ------------------------------------------------------------------ return
\* Resume with a finally block that swallows: attach returns normally
\* whatever ended the try body
Resume_swallow(g, e) ==
    CASE g.op = "attach" /\ g.pc = "opening" ->
            IF e = NoErr THEN [g EXCEPT !.pc = "l141"]
            ELSE [g EXCEPT !.pc = "l144", !.exc = e, !.raised = e]
      [] g.op = "attach" /\ g.pc = "acting" ->
            IF e = NoErr THEN [g EXCEPT !.pc = "next"]
            ELSE [g EXCEPT !.pc = "l144", !.exc = e, !.raised = e]
      [] g.op = "attach" /\ g.pc = "detaching" ->
            [g EXCEPT !.pc = "done", !.exc = NoErr]
      [] OTHER -> [g EXCEPT !.pc = "body", !.exc = e]

\* Resume with a loop that stops after the first line act has handled
Resume_break(g, e) ==
    CASE g.op = "attach" /\ g.pc = "opening" ->
            IF e = NoErr THEN [g EXCEPT !.pc = "l141"]
            ELSE [g EXCEPT !.pc = "l144", !.exc = e, !.raised = e]
      [] g.op = "attach" /\ g.pc = "acting" ->
            IF e = NoErr THEN [g EXCEPT !.pc = "l144"]
            ELSE [g EXCEPT !.pc = "l144", !.exc = e, !.raised = e]
      [] g.op = "attach" /\ g.pc = "detaching" ->
            IF e = NoErr THEN [g EXCEPT !.pc = "done"]
            ELSE [g EXCEPT !.pc = "done", !.exc = e]
      [] OTHER -> [g EXCEPT !.pc = "body", !.exc = e]

\* The caller's frame after the call it made ended with exception e (NoErr
\* when it returned).
Resume(g, e) ==
    CASE g.op = "attach" /\ g.pc = "opening" ->
            IF e = NoErr THEN [g EXCEPT !.pc = "l141"]
            ELSE [g EXCEPT !.pc = "l144", !.exc = e, !.raised = e]
      [] g.op = "attach" /\ g.pc = "acting" ->
            IF e = NoErr THEN [g EXCEPT !.pc = "next"]
            ELSE [g EXCEPT !.pc = "l144", !.exc = e, !.raised = e]
      [] g.op = "attach" /\ g.pc = "detaching" ->
            IF e = NoErr THEN [g EXCEPT !.pc = "done"]
            ELSE [g EXCEPT !.pc = "done", !.exc = e]
      [] OTHER -> [g EXCEPT !.pc = "body", !.exc = e]

\* A finished activation returns, or raises, to its caller.
return(t) ==
    /\ ~Idle(t) /\ Top(t).pc = "done"
    /\ LET n == Depth(t)
           e == Top(t).exc
       IN  stack' = [stack EXCEPT ![t] =
              IF n = 1 THEN <<>>
              ELSE Append(SubSeq(@, 1, n - 2), Resume(@[n - 1], e))]
    /\ UNCHANGED <<connection, connVars, procVars, calls, kills, torn>>

\* ------------------------------------------------------- the child processes
\* rtl_fm ends on its own (the receiver is unplugged, the process fails).
rtlfm_exit ==
    /\ \E k \in Pipes :
          /\ rtl[k] = "running"
          /\ rtl' = [rtl EXCEPT ![k] = "dead"]
    /\ UNCHANGED <<connection, connVars, multi, feed, lines, stack, calls,
                   kills, torn>>

\* multimon-ng reads end-of-file on its stdin once the rtl_fm process that
\* writes it is dead, and exits.
multimon_exit ==
    /\ \E k \in Pipes :
          /\ multi[k] = "running"
          /\ rtl[feed[k]] = "dead"
          /\ multi' = [multi EXCEPT ![k] = "dead"]
    /\ UNCHANGED <<connection, connVars, rtl, feed, lines, stack, calls, kills, torn>>

\* ----------------------------------------------------------- the pure calls
\* Line(line, **kwargs)
call_Line(t) ==
    /\ Idle(t) /\ CanCall(t)
    /\ \E toks \in WordSeqs, lay \in Layouts, kw \in Overrides :
          stack' = Push(t, [Frame("Line", None, None, "l19")
                              EXCEPT !.arg = Str(Compose(toks, lay)),
                                     !.kw = kw, !.toks = toks])
    /\ calls' = [calls EXCEPT ![t] = @ - 1]
    /\ UNCHANGED <<connection, connVars, procVars, kills, torn>>

\* lines 19-23
Line_19(t) ==
    /\ At(t, "Line", "l19")
    /\ LET f == Top(t)
           made == Line(f.arg, f.kw)
       IN  stack' = SetTop(t, [f EXCEPT !.pc = "done", !.exc = made.exc,
                                        !.rec = made])
    /\ UNCHANGED <<connection, connVars, procVars, calls, kills, torn>>

\* reader.create_line(line, decode=..., strip=...)
call_create_line(t) ==
    /\ Idle(t) /\ CanCall(t)
    /\ \E line \in CreateInputs, decode \in Flags, strip_ \in Flags :
          stack' = Push(t, [Frame("create_line", "r1", None, "l166")
                              EXCEPT !.arg = line,
                                     !.kw = Kw(NoLine, NoLine, NoLine,
                                               decode, strip_)])
    /\ calls' = [calls EXCEPT ![t] = @ - 1]
    /\ UNCHANGED <<connection, connVars, procVars, kills, torn>>

\* lines 166-168
create_line_166(t) ==
    /\ At(t, "create_line", "l166")
    /\ LET f == Top(t)
           made == create_line(f.arg, f.kw)
       IN  stack' = SetTop(t, [f EXCEPT !.pc = "done", !.exc = made.exc,
                                        !.rec = made])
    /\ UNCHANGED <<connection, connVars, procVars, calls, kills, torn>>

\* reader.decode_line(text.encode("utf-8"), strip=...), of a text line
\* that ends with a newline
call_decode_line(t) ==
    /\ Idle(t) /\ CanCall(t)
    /\ \E text \in Texts, strip_ \in Flags :
          stack' = Push(t, [Frame("decode_line", "r1", None, "l154")
                              EXCEPT !.arg = Bytes(Utf8Encode(text \o <<10>>)),
                                     !.kw = [NoKw EXCEPT !.strip = strip_]])
    /\ calls' = [calls EXCEPT ![t] = @ - 1]
    /\ UNCHANGED <<connection, connVars, procVars, kills, torn>>

\* lines 154-155
decode_line_154(t) ==
    /\ At(t, "decode_line", "l154")
    /\ LET f == Top(t)
           decoded == decode_line(f.arg, Flag(f.kw.strip, TRUE))
       IN  stack' = SetTop(t, [f EXCEPT !.pc = "done", !.out = decoded,
                                 !.exc = IF decoded = NoLine
                                         THEN "UnicodeDecodeError" ELSE NoErr])
    /\ UNCHANGED <<connection, connVars, procVars, calls, kills, torn>>

\* reader.is_line_blacklisted(x), x a Line object or the raw bytes of a
\* line, on a Reader whose config holds the blacklists cfg
call_is_line_blacklisted(t) ==
    /\ Idle(t) /\ CanCall(t)
    /\ \E toks \in WordSeqs, lay \in Layouts, cfg \in Configs,
          asrec \in BOOLEAN :
          LET text == Compose(toks, lay)
              made == Line(Str(text), NoKw)
          IN  /\ asrec => made.exc = NoErr
              /\ stack' = Push(t,
                    [Frame("is_line_blacklisted", "r1", None, "l178")
                       EXCEPT !.arg = IF asrec THEN NoLine
                                      ELSE Bytes(Utf8Encode(text)),
                              !.rec = IF asrec THEN made ELSE NoRec,
                              !.cfg = cfg, !.toks = toks])
    /\ calls' = [calls EXCEPT ![t] = @ - 1]
    /\ UNCHANGED <<connection, connVars, procVars, kills, torn>>

\* line 178
is_line_blacklisted_178(t) ==
    /\ At(t, "is_line_blacklisted", "l178")
    /\ LET f == Top(t)
           res == is_line_blacklisted(IF f.rec.t = "Line" THEN f.rec
                                      ELSE f.arg, f.cfg)
       IN  stack' = SetTop(t, [f EXCEPT !.pc = "done", !.exc = res.exc,
                                        !.val = res.val])
    /\ UNCHANGED <<connection, connVars, procVars, calls, kills, torn>>

\* examples/reader.py, lines 15-17: the attach of the example, the last
\* statement of the script.
call_example(t) ==
    /\ Idle(t) /\ CanCall(t)
    /\ stack' = Push(t, Frame("attach", OwnReader(t), OwnConnection(t), "l110"))
    /\ calls' = [calls EXCEPT ![t] = 0]
    /\ UNCHANGED <<connection, connVars, procVars, kills, torn>>

\* examples/reader.py, lines 7-12: MyReader.act makes the Line of the raw
\* line and prints it, or prints that it is blacklisted.
MyReader_act(t) ==
    /\ At(t, "act", "body")
    /\ LET f == Top(t)
           made == create_line(f.arg, NoKw)
       IN  stack' = SetTop(t, [f EXCEPT !.pc = "done", !.exc = made.exc,
                                        !.rec = made])
    /\ UNCHANGED <<connection, connVars, procVars, calls, kills, torn>>

\* ----------------------------------------------------------- specifications
\* The steps of attach, detach and open, and the return of any activation.
Run(t) ==
    \/ attach_110(t) \/ attach_112(t)
    \/ setup_139(t) \/ setup_140(t) \/ setup_141(t) \/ setup_next(t)
    \/ setup_144(t)
    \/ detach_124(t) \/ detach_125(t) \/ detach_126(t)
    \/ open_60(t) \/ open_62(t) \/ open_63(t) \/ open_64(t)
    \/ return(t)

Step(t) ==
    \/ call_attach(t) \/ call_detach(t) \/ call_open(t) \/ call_kill(t)
    \/ act_return(t) \/ act_raise(t) \/ act_detach(t) \/ act_attach(t)
    \/ Run(t)

Next == (\E t \in Threads : Step(t)) \/ rtlfm_exit \/ multimon_exit

\* Every call, from a single thread, with an act that may call back into
\* its Reader.
Spec == Init /\ [][Next]_vars

\* Concurrent callers of attach and detach, with an act that returns or raises.
StepPar(t) ==
    \/ call_attach(t) \/ call_detach(t)
    \/ act_return(t) \/ act_raise(t)
    \/ Run(t)

NextPar == (\E t \in Threads : StepPar(t)) \/ rtlfm_exit \/ multimon_exit

SpecPar == InitPar /\ [][NextPar]_vars

\* Two callers, each with a Reader and a Connection of its own, as in two
\* runs of examples/reader.py side by side: reader = MyReader();
\* reader.attach(Connection()).
\* examples/reader.py, line 17: each run makes its one attach call.
InitOwn ==
    /\ InitState
    /\ calls = [t \in Threads |-> 1]
    /\ lines = MaxLines2

call_attach_own(t) ==
    /\ Idle(t) /\ CanCall(t)
    /\ stack' = Push(t, Frame("attach", OwnReader(t), OwnConnection(t), "l110"))
    /\ calls' = [calls EXCEPT ![t] = @ - 1]
    /\ UNCHANGED <<connection, connVars, procVars, kills, torn>>

\* No guard of such a caller finds a connection set, and no rtl_fm ends
\* unless it is killed.
StepOwn(t) ==
    \/ call_attach_own(t)
    \/ act_return(t) \/ act_raise(t)
    \/ attach_110(t)
    \/ setup_139(t) \/ setup_140(t) \/ setup_141(t) \/ setup_next(t)
    \/ setup_144(t)
    \/ detach_124(t) \/ detach_125(t) \/ detach_126(t)
    \/ open_60(t) \/ open_62(t) \/ open_63(t) \/ open_64(t)
    \/ return(t)

NextOwn == (\E t \in Threads : StepOwn(t)) \/ multimon_exit

SpecOwn == InitOwn /\ [][NextOwn]_vars

\* The same, with the operating system running the child processes: every
\* multimon-ng process that stays at end-of-file on its stdin exits.
SpecLive ==
    /\ InitOwn /\ [][NextOwn]_vars
    /\ \A k \in Pipes : WF_vars(multimon_exit /\ multi'[k] # multi[k])

\* One caller of the pure methods of a Reader and of Line, which ends with
\* the attach of examples/reader.py, on a Reader whose act is MyReader.act.
InitLine ==
    /\ InitState
    /\ calls = [t \in Threads |-> IF t = "t1" THEN MaxCalls2 ELSE 0]
    /\ lines = MaxLines2

StepLine(t) ==
    \/ call_Line(t) \/ call_create_line(t) \/ call_decode_line(t)
    \/ call_is_line_blacklisted(t) \/ call_example(t)
    \/ Line_19(t) \/ create_line_166(t) \/ decode_line_154(t)
    \/ is_line_blacklisted_178(t)
    \/ MyReader_act(t)
    \/ attach_110(t)
    \/ setup_139(t) \/ setup_140(t) \/ setup_141(t) \/ setup_next(t)
    \/ setup_144(t)
    \/ detach_124(t) \/ detach_125(t) \/ detach_126(t)
    \/ open_60(t) \/ open_62(t) \/ open_63(t) \/ open_64(t)
    \/ return(t)

NextLine == (\E t \in Threads : StepLine(t)) \/ rtlfm_exit \/ multimon_exit

SpecLine == InitLine /\ [][NextLine]_vars

\* ------------------------------------------------------------------ claims
Frames(t) == {stack[t][i] : i \in 1..Len(stack[t])}
AllFrames == UNION {Frames(t) : t \in Threads}
Attaches == {f \in AllFrames : f.op = "attach"}
Detaches == {f \in AllFrames : f.op = "detach"}

\* The thread t takes a step of its own top activation.
Moves(t) == ~Idle(t) /\ stack'[t] # stack[t]

\* C1: whenever an attach that passed the guard finishes (end of stream, act
\* raised, reading raised, open raised), the Reader's connection is None at
\* the moment it returns.
C1_GuaranteedDetach ==
    \A f \in Attaches :
        (f.pc = "done" /\ f.passed) => connection[f.r] = None

\* an attach that read a line and ends with an exception, about to return
C1_Witness ==
    \E f \in Attaches :
        f.pc = "done" /\ f.passed /\ f.exc # NoErr /\ f.acted # <<>>

\* C2: attach while the Reader holds a connection whose stdout is set fails
\* with ConnectionError and changes nothing: the reference stays, nothing is
\* opened, no kill is invoked.
C2_Rejected(f) ==
    /\ f.op = "attach" /\ f.pc \in {"l110", "l112"}
    /\ connection[f.r] # None
    /\ stdout[connection[f.r]] # NoProc

C2_AlreadyActive ==
    /\ [](\A f \in Attaches :
            (f.pc = "done" /\ ~f.passed) =>
                /\ f.exc = "ConnectionError"
                /\ f.held # None /\ connection[f.r] = f.held
                /\ kills = f.k0)
    /\ [][\A t \in Threads :
            (Moves(t) /\ C2_Rejected(Top(t))) =>
                /\ Len(stack'[t]) = Len(stack[t])
                /\ stack'[t][Len(stack[t])].pc \in {"l112", "done"}
                /\ stack'[t][Len(stack[t])].pc = "done" =>
                      stack'[t][Len(stack[t])].exc = "ConnectionError"
                /\ UNCHANGED <<connection, connVars, rtl, multi, feed, kills>>
       ]_vars

\* attach(c2) rejected while the Reader holds another connection c1
C2_Witness ==
    \E f \in Attaches :
        /\ f.pc = "done" /\ ~f.passed /\ f.exc = "ConnectionError"
        /\ f.held # None /\ f.held # f.c /\ connection[f.r] = f.held

\* An attach that has set the Reader's reference (line 139) and has not yet
\* left its read loop.
InProgress(f) ==
    /\ f.op = "attach" /\ f.passed
    /\ f.pc \in {"l140", "opening", "l141", "next", "acting"}

\* C3: at most one Connection is attached to a Reader at a time: while an
\* attach is between setting the reference and finishing its read loop, no
\* other attach on that Reader, let through by a guard that saw the
\* reference set, replaces the reference or opens a second Connection.
C3_AtMostOne ==
    \A t \in Threads, u \in Threads :
        t # u =>
            \A f \in Frames(t), g \in Frames(u) :
                ~ /\ InProgress(f)
                  /\ g.op = "attach" /\ g.r = f.r
                  /\ g.passed /\ g.held # None
                  /\ g.pc \notin {"l112", "l139"}

\* C4: a Connection's stdout is set if and only if both child processes were
\* spawned by its open and it has not been torn down since; after kill() it
\* is unset.  (Stated of a Connection no open is working on.)
Opening(c) == \E f \in AllFrames : f.op = "open" /\ f.c = c /\ f.pc # "done"

C4_StreamInvariant ==
    \A c \in Connections :
        ~Opening(c) =>
            (stdout[c] # NoProc <=>
                /\ rtlfm_process[c] # NoProc
                /\ multi_process[c] # NoProc
                /\ ~torn[c])

\* C5: open is atomic with respect to spawn failure: when it raises, no
\* process it started is running and the process handles and stdout are
\* all unset; when it returns, the handles and stdout are all set.
C5_OpenAtomic ==
    \A f \in AllFrames :
        (f.op = "open" /\ f.pc = "done") =>
            IF f.exc = NoErr
            THEN /\ rtlfm_process[f.c] # NoProc
                 /\ multi_process[f.c] # NoProc
                 /\ stdout[f.c] # NoProc
            ELSE /\ (f.mine # NoProc => rtl[f.mine] # "running")
                 /\ rtlfm_process[f.c] = NoProc
                 /\ multi_process[f.c] = NoProc
                 /\ stdout[f.c] = NoProc

\* C6: when act raises on some line, or reading the stream raises, attach
\* neither swallows nor retries: detach runs (a kill is invoked, the reference
\* is cleared), act is not called for any later line, and attach ends by
\* raising that same exception.
LoopRaised(f) == f.op = "attach" /\ f.stream # NoProc /\ f.raised # NoErr

C6_ErrorPropagation ==
    /\ [](\A f \in Attaches :
            (LoopRaised(f) /\ f.pc = "done") =>
                /\ f.exc = f.raised
                /\ connection[f.r] = None
                /\ kills > f.k0)
    /\ [][\A t \in Threads : \A i \in 1..Len(stack[t]) :
            LoopRaised(stack[t][i]) =>
                /\ i <= Len(stack'[t])
                   => /\ stack'[t][i].acted = stack[t][i].acted
                      /\ stack'[t][i].pc \in {"l144", "detaching", "done"}
                /\ i < Len(stack'[t]) => stack'[t][i + 1].op = "detach"
       ]_vars

\* act raised on the second line and attach is about to raise it
C6_Witness ==
    \E f \in Attaches :
        /\ f.pc = "done" /\ f.raised = "ActError" /\ f.exc = "ActError"
        /\ Len(f.acted) = 2

\* C7: when the stream yields l1..lN and then ends and act never raises, act
\* is called exactly N times, with l1..lN in order, only after open has
\* completed, and attach returns normally.
C7_OneActPerLine ==
    \A f \in Attaches :
        /\ Len(f.acted) = Len(f.got)
        /\ \A i \in 1..Len(f.got) : f.acted[i] = f.got[i]
        /\ f.acted # <<>> => (f.stream # NoProc /\ stdout[f.c] # NoProc)
        /\ (f.pc = "done" /\ f.passed /\ f.raised = NoErr) =>
               /\ f.exc = NoErr
               /\ f.stream # NoProc
               /\ multi[f.stream] = "dead"

\* two different lines, acted on in the order read, then a normal return
C7_Witness ==
    \E f \in Attaches :
        /\ f.pc = "done" /\ f.exc = NoErr
        /\ Len(f.acted) = 2 /\ f.acted[1] # f.acted[2]

\* C8 as stated: the value act receives for a line is decode_line(raw,
\* strip=True) of the bytes read from the stream.
C8_ActGetsDecoded ==
    \A t \in Threads : \A i \in 2..Len(stack[t]) :
        stack[t][i].op = "act" =>
            LET raw == stack[t][i - 1].got[Len(stack[t][i - 1].got)]
            IN  stack[t][i].arg = decode_line(raw, TRUE)

\* C8 as amended: act receives the byte line exactly as it was read from the
\* stream, undecoded and unstripped.
C8_ActGetsRaw ==
    \A t \in Threads : \A i \in 2..Len(stack[t]) :
        stack[t][i].op = "act" =>
            LET raw == stack[t][i - 1].got[Len(stack[t][i - 1].got)]
            IN  /\ stack[t][i].arg = raw
                /\ stack[t][i].arg.t = "bytes"

\* act holds b"a \n", which decode_line would turn into the text "a"
C8_Witness ==
    \E f \in AllFrames :
        /\ f.op = "act" /\ f.arg = Bytes(<<97, 32, 10>>)
        /\ decode_line(f.arg, TRUE) = Str(<<97>>)

\* C9: detach with a connection present invokes that connection's kill exactly
\* once, before the reference is cleared, and leaves the reference None,
\* whatever the state of the connection.
C9_DetachKillsThenClears ==
    \A f \in Detaches :
        f.found =>
            /\ f.pc = "l125" => (kills = f.k0 /\ connection[f.r] = f.c)
            /\ f.pc = "l126" => (kills = f.k0 + 1 /\ connection[f.r] = f.c)
            /\ f.pc = "done" => /\ kills = f.k0 + 1
                                /\ connection[f.r] = None
                                /\ f.exc = NoErr

\* a detach that ends on a partially opened connection: rtl_fm was started,
\* multimon-ng was not
C9_Witness ==
    \E f \in Detaches :
        /\ f.found /\ f.pc = "done"
        /\ rtlfm_process[f.c] # NoProc /\ stdout[f.c] = NoProc

\* C10: detach with no connection set is a no-op: no kill is invoked and no
\* field of the Reader or of a Connection changes, so a second detach in a
\* row leaves the state and the number of kills as the first left them.
C10_DetachIdempotent ==
    /\ [](\A f \in Detaches :
            (f.pc = "done" /\ ~f.found) =>
                (kills = f.k0 /\ connection[f.r] = None /\ f.exc = NoErr))
    /\ [][\A t \in Threads :
            (/\ Moves(t) /\ Top(t).op = "detach" /\ Top(t).pc = "l124"
             /\ connection[Top(t).r] = None) =>
                /\ Len(stack'[t]) = Len(stack[t])
                /\ stack'[t][Len(stack[t])].pc = "done"
                /\ UNCHANGED <<connection, connVars, rtl, multi, feed, kills>>
       ]_vars

\* the detach of the finally block, after act had already detached
C10_Witness ==
    \E t \in Threads :
        /\ Depth(t) = 2
        /\ stack[t][2].op = "detach" /\ stack[t][2].pc = "done"
        /\ ~stack[t][2].found
        /\ stack[t][1].op = "attach" /\ stack[t][1].acted # <<>>
        /\ kills = 1

\* C11: kill() ends every running rtl_fm process of the system, not only the
\* one its Connection started: when a Reader's detach invokes kill, no
\* Connection, its own or another Reader's, is left with a running capture
\* process, so a Reader still attached and reading loses its capture process
\* to the detach of another.
C11_KillHitsEveryConnection ==
    [][\A t \in Threads :
          (/\ Moves(t) /\ Top(t).op = "detach" /\ Top(t).pc = "l125"
           /\ connection[Top(t).r] # None) =>
              /\ kills' = kills + 1
              /\ \A k \in Pipes : rtl[k] = "running" => rtl'[k] = "dead"
              /\ \A c \in Connections :
                    rtlfm_process[c] # NoProc =>
                        rtl'[rtlfm_process[c]] # "running"
      ]_vars

\* one Reader is in its read loop on its own Connection, whose rtl_fm is
\* dead, and the only kill so far is the one the other Reader's detach has
\* just invoked on the other Connection
C11_Witness ==
    \E t \in Threads, u \in Threads :
        /\ t # u /\ Depth(t) = 1 /\ Depth(u) = 2
        /\ LET f == stack[t][1]
               g == stack[u][2]
           IN  /\ InProgress(f) /\ f.pc = "next"
               /\ connection[f.r] = f.c
               /\ f.stream = stdout[f.c]
               /\ multi[f.stream] = "running"
               /\ rtl[rtlfm_process[f.c]] = "dead"
               /\ g.op = "detach" /\ g.pc = "l126" /\ g.found
               /\ g.r # f.r /\ g.c # f.c
               /\ kills = 1

\* C12: over attach/detach cycles, attaching again a Connection that was
\* torn down included, attach never invokes open on a Connection whose
\* stdout is set: whenever an attach calls open on a Connection killed
\* since its last open, that Connection's stdout is unset.
C12_OpenOnlyWhenUnset ==
    \A t \in Threads : \A i \in 2..Len(stack[t]) :
        (/\ stack[t][i].op = "open" /\ stack[t][i].pc = "l60"
         /\ stack[t][i - 1].op = "attach"
         /\ torn[stack[t][i].c]) =>
            stdout[stack[t][i].c] = NoProc

Unbracketed(tok, m) ==
    \E i \in 0..Len(tok), j \in 0..Len(tok) :
        /\ i <= j /\ m = SubSeq(tok, i + 1, j)
        /\ \A k \in (1..i) \cup ((j + 1)..Len(tok)) : tok[k] \in {91, 93}
        /\ m # <<>> => (m[1] \notin {91, 93} /\ m[Len(m)] \notin {91, 93})

\* C14: for every line of at least 7 whitespace-delimited tokens and no
\* overrides, Line(line) has timestamp = token[1], monitorcode = token[5]
\* without its surrounding '[' and ']', message = the tokens from token[6]
\* up to but excluding the last one, joined by single spaces, and line = the
\* raw line unchanged.
C14_ParsingRule ==
    \A f \in AllFrames :
        (/\ f.op = "Line" /\ f.pc = "done"
         /\ Len(f.toks) >= 7 /\ f.kw = NoKw) =>
            /\ f.exc = NoErr /\ f.rec.t = "Line"
            /\ f.rec.line = f.arg
            /\ f.rec.timestamp = Str(f.toks[2])
            /\ f.rec.monitorcode.t = "str"
            /\ Unbracketed(f.toks[6], f.rec.monitorcode.v)
            /\ f.rec.message =
                   Str(Between(SubSeq(f.toks, 7, Len(f.toks) - 1), <<32>>))

\* the Line of " w0\t w1\t ... w7 \n" with w5 = "]b[\xe9" and w6 = "[a]":
\* monitorcode "b[\xe9", message "[a]", the eighth word left out
C14_Witness ==
    \E f \in AllFrames :
        /\ f.op = "Line" /\ f.pc = "done" /\ f.kw = NoKw
        /\ Len(f.toks) = 8 /\ f.arg.v[1] = 32
        /\ f.toks[6] = <<93, 98, 91, 233>> /\ f.toks[7] = <<91, 97, 93>>
        /\ f.rec.monitorcode = Str(<<98, 91, 233>>)
        /\ f.rec.message = Str(<<91, 97, 93>>)

\* create_line(ExampleRaw) with decode and strip on has returned
ExampleMade(f) ==
    /\ f.op = "create_line" /\ f.pc = "done" /\ f.arg = ExampleRaw
    /\ Flag(f.kw.decode, TRUE) /\ Flag(f.kw.strip, TRUE)

\* C15 as stated: the bytes of "2024-01-01 12:00:00 X Y Z [A12] Hello World
\* NNNN" and a newline, through create_line with decode and strip on, give
\* timestamp "12:00:00", monitorcode "A12" and message "Hello World NNNN".
C15_ExampleAsStated ==
    \A f \in AllFrames :
        ExampleMade(f) =>
            /\ f.exc = NoErr
            /\ f.rec.timestamp = Str(<<49, 50, 58, 48, 48, 58, 48, 48>>)
            /\ f.rec.monitorcode = Str(<<65, 49, 50>>)
            /\ f.rec.message =
                   Str(<<72, 101, 108, 108, 111, 32, 87, 111, 114, 108, 100, 32, 78, 78, 78, 78>>)

\* C15 as amended: they give timestamp "12:00:00", monitorcode "A12" and
\* message "Hello World": the last token, NNNN, is not part of the message.
C15_Example ==
    \A f \in AllFrames :
        ExampleMade(f) =>
            /\ f.exc = NoErr
            /\ f.rec.timestamp = Str(<<49, 50, 58, 48, 48, 58, 48, 48>>)
            /\ f.rec.monitorcode = Str(<<65, 49, 50>>)
            /\ f.rec.message =
                   Str(<<72, 101, 108, 108, 111, 32, 87, 111, 114, 108, 100>>)

\* create_line(ExampleRaw), no keyword given, has returned a Line
C15_Witness ==
    \E f \in AllFrames :
        /\ ExampleMade(f) /\ f.kw = NoKw
        /\ f.rec.t = "Line" /\ Len(split(f.rec.line)) = 9

\* C16: constructing a Line from a line of fewer than 6 whitespace-delimited
\* tokens raises and makes no record, whichever overrides are given, a
\* monitorcode override included; from 6 tokens on it never raises.  When
\* it raises inside act during a read loop, the attachment ends: detach runs
\* and attach raises that error.
C16_Malformed ==
    /\ \A f \in AllFrames :
          (f.op = "Line" /\ f.pc = "done") =>
              IF Len(f.toks) < 6
              THEN f.exc # NoErr /\ f.rec.t # "Line"
              ELSE f.exc = NoErr /\ f.rec.t = "Line" /\ f.rec.line = f.arg
    /\ \A t \in Threads : \A i \in 2..Len(stack[t]) :
          (/\ stack[t][i].op = "act" /\ stack[t][i].pc = "done"
           /\ Len(split(stack[t][i].arg)) < 6) =>
              /\ stack[t][i].exc # NoErr /\ stack[t][i].rec.t # "Line"
              /\ stack[t][i - 1].op = "attach"
    /\ \A f \in Attaches :
          (f.acted # <<>> /\ Len(split(f.acted[Len(f.acted)])) < 6
           /\ f.pc \in {"l144", "detaching", "done"}) =>
              /\ f.raised # NoErr /\ f.exc = f.raised
              /\ f.pc = "done" => (connection[f.r] = None /\ kills > f.k0)

\* the act of examples/reader.py was given b"a \n", create_line raised
\* IndexError in it, detach has run and attach is about to raise IndexError
C16_Witness ==
    \E f \in Attaches :
        /\ f.pc = "done" /\ f.acted = <<Bytes(<<97, 32, 10>>)>>
        /\ f.raised = "IndexError" /\ f.exc = "IndexError"
        /\ connection[f.r] = None /\ kills = f.k0 + 1

\* C17: is_line_blacklisted(record) is true if and only if the record's
\* monitorcode is in the blacklisted monitorcodes or its message is in the
\* blacklisted messages; it changes neither the record nor the blacklists;
\* given the raw line it does as it does given create_line(raw).
C17_BlacklistPredicate ==
    /\ [](\A f \in AllFrames :
            (f.op = "is_line_blacklisted" /\ f.pc = "done") =>
                IF f.rec.t = "Line"
                THEN /\ f.exc = NoErr
                     /\ f.val <=> \/ f.rec.monitorcode \in f.cfg.monitorcodes
                                  \/ f.rec.message \in f.cfg.messages
                ELSE LET made == create_line(f.arg, NoKw)
                     IN  IF made.exc # NoErr THEN f.exc = made.exc
                         ELSE /\ f.exc = NoErr
                              /\ f.val <=>
                                    \/ made.monitorcode \in f.cfg.monitorcodes
                                    \/ made.message \in f.cfg.messages)
    /\ [][\A t \in Threads :
            (Moves(t) /\ Top(t).op = "is_line_blacklisted"
             /\ Top(t).pc = "l178") =>
                /\ Len(stack'[t]) = Len(stack[t])
                /\ stack'[t][Len(stack[t])].rec = Top(t).rec
                /\ stack'[t][Len(stack[t])].arg = Top(t).arg
                /\ stack'[t][Len(stack[t])].cfg = Top(t).cfg
       ]_vars

\* the raw bytes of a line of eight words, whose message "[a]" is
\* blacklisted and whose monitorcode "b[\xe9" is not: True
C17_Witness ==
    \E f \in AllFrames :
        /\ f.op = "is_line_blacklisted" /\ f.pc = "done"
        /\ f.arg.t = "bytes" /\ Len(f.toks) = 8
        /\ f.toks[6] = <<93, 98, 91, 233>> /\ f.toks[7] = <<91, 97, 93>>
        /\ f.cfg = Cfg({Str(<<91, 97, 93>>)}, {Str(<<97>>)})
        /\ f.exc = NoErr /\ f.val

\* decode_line has returned for the bytes of the text line text + "\n"
Decoded(f, text) ==
    /\ f.op = "decode_line" /\ f.pc = "done"
    /\ f.arg = Bytes(Utf8Encode(text \o <<10>>))

Detached(m) ==
    \E f \in Detaches :
        /\ f.found /\ f.pc \in {"l126", "done"}
        /\ stdout[f.c] = m /\ multi_process[f.c] = m

\* C19: after a Reader detaches an opened Connection, the rtl_fm process is
\* ended by the kill, and the multimon-ng process, which no step of the
\* program ends, exits because its stdin is at end-of-file: eventually
\* neither process of that Connection is running, also when the loop was
\* left by an error with multimon-ng still alive.
C19_TeardownStopsBoth ==
    /\ [](\A f \in Detaches :
            (f.found /\ f.pc \in {"l126", "done"}
             /\ rtlfm_process[f.c] # NoProc) =>
                rtl[rtlfm_process[f.c]] = "dead")
    /\ [][\A m \in Pipes :
            (multi[m] = "running" /\ multi'[m] # "running") =>
                (rtl[feed[m]] = "dead" /\ UNCHANGED stack)
       ]_vars
    /\ \A m \in Pipes : Detached(m) ~> (multi[m] = "dead")

\* the read raised with multimon-ng alive; the finally's detach has killed
\* rtl_fm and is about to return, and multimon-ng has not yet exited
C19_Witness ==
    \E t \in Threads :
        /\ Depth(t) = 2
        /\ stack[t][1].op = "attach" /\ stack[t][1].raised = "IOError"
        /\ stack[t][2].op = "detach" /\ stack[t][2].found
        /\ stack[t][2].pc = "done"
        /\ rtl[rtlfm_process[stack[t][2].c]] = "dead"
        /\ multi[stdout[stack[t][2].c]] = "running"

\* C20: act runs only while attached: whenever the read loop invokes act,
\* the Reader's connection is the Connection being read and its stdout is
\* set, and no kill has been invoked since the attach began (neither by the
\* final detach nor by a detach called from inside an earlier act).
C20_ActOnlyWhileAttached ==
    [][\A t \in Threads :
          (/\ ~Idle(t) /\ Top(t).op = "attach" /\ Top(t).pc = "next"
           /\ Len(stack'[t]) = Len(stack[t]) + 1
           /\ stack'[t][Len(stack'[t])].op = "act") =>
              /\ connection[Top(t).r] = Top(t).c
              /\ stdout[Top(t).c] # NoProc
              /\ kills = Top(t).k0
      ]_vars

====
